---- MODULE Spec2Model ----
(***************************************************************************)
(* State-machine model of the WSB-GPT trading simulator: the simulated     *)
(* cash and portfolio (SettingsTab / MarketDataTab in wsb-gpt.py) and the  *)
(* auto trading rules with their timer-driven evaluation pass              *)
(* (AutoTradingTab in auto_trading_tab.py).                                *)
(*                                                                         *)
(* The program is a single-threaded Qt application.  A handler runs to     *)
(* completion unless it opens a modal dialog (QMessageBox, QInputDialog):  *)
(* the dialog runs a nested event loop, in which user input to the other   *)
(* windows is blocked and timers are served.  The handlers blocked in a    *)
(* dialog form a stack (modal), the innermost one returning first.  Qt's   *)
(* event dispatchers do not send the event of a timer while the previous   *)
(* event of that same timer is still being handled ("send event, but       *)
(* don't allow it to recurse"), so the timer of the auto trading tab does  *)
(* not call check_auto_trade_rules while a call of it is blocked.          *)
(*                                                                         *)
(* Money is counted in half cents (Cent == 2): quotes are floats with      *)
(* more than two decimals, the spin boxes hold two decimals.               *)
(***************************************************************************)
EXTENDS Integers, Sequences, FiniteSets, TLC

\* ------------------------------------------------------------- bounds
MaxPrice == 3       \* quoted closes range over 0..MaxPrice
MaxQty == 2         \* quantities of a manual buy range over 1..MaxQty
MaxRuleQty == 1     \* quantities of a rule range over 1..MaxRuleQty
MaxHold == 2        \* a buy is taken only while the holding stays <= MaxHold
MaxCash == 6        \* a sell is taken only while cash stays <= MaxCash
MaxRuleId == 2      \* number of rules ever added
MaxExecs == 2       \* the count of a rule's trades stops at MaxExecs

\* ------------------------------------------------- program constants
Cent == 2           \* spin boxes hold 2 decimals: one cent is 2 money units
InitialCash == 4    \* SettingsTab.simulated_cash = 500.0 (scaled)
CashInputMax == 4   \* cash_input.setRange(0, 1000000) (scaled)

Symbols == {"A", "B"}
\* the symbols the user types while rules are in play
Keyed == {"A", ""}
BUY_LIMIT == "Buy (Limit)"
SELL_STOP_LOSS == "Sell (Stop Loss)"
SELL_TAKE_PROFIT == "Sell (Take Profit)"
RuleTypes == {BUY_LIMIT, SELL_STOP_LOSS, SELL_TAKE_PROFIT}

\* rule_price_input: a multiple of 0.01 in 0.01 .. 100000.00
TargetPrices == {t \in 1..MaxPrice : t % Cent = 0}
Quantities == 1..MaxQty
RuleQuantities == 1..MaxRuleQty

\* ---------------------------------------------------- the price source
\* What yf.download produces: it raises, returns an empty frame, a frame
\* without the Close column, a frame whose last close is NaN, or a close.
Unavailable(k) == [kind |-> k, close |-> 0]
Downloads ==
    {Unavailable(k) : k \in {"raise", "empty", "nocol", "nan"}}
        \cup {[kind |-> "ok", close |-> p] : p \in 0..MaxPrice}

\* StockFetcher.fetch: an exception of yf.download becomes an empty frame.
StockFetcherFetch(d) == IF d.kind = "raise" THEN Unavailable("empty") ELSE d

\* ------------------------------------------------------------ helpers
\* {}
EmptyDict == [t \in {} |-> 0]
\* dict.get(symbol, 0)
Get(p, s) == IF s \in DOMAIN p THEN p[s] ELSE 0
\* p[symbol] = v
Put(p, s, v) == [t \in (DOMAIN p) \cup {s} |-> IF t = s THEN v ELSE p[t]]
\* del p[symbol]
Del(p, s) == [t \in (DOMAIN p) \ {s} |-> p[t]]
\* a deletion that counts the index from 1
DelAt_FromOne(l, index) == SubSeq(l, 1, index - 1) \o SubSeq(l, index + 1, Len(l))

\* del list[index], index counted from 0 as in the source
DelAt(l, index) == SubSeq(l, 1, index) \o SubSeq(l, index + 2, Len(l))
\* list.remove(x): the first occurrence
RECURSIVE ListRemove(_, _)
ListRemove(l, x) ==
    IF l = <<>> THEN <<>>
    ELSE IF Head(l) = x THEN Tail(l)
    ELSE <<Head(l)>> \o ListRemove(Tail(l), x)
InList(l, x) == \E k \in 1..Len(l) : l[k] = x
Ids(l) == {l[k].id : k \in 1..Len(l)}

\* QDoubleSpinBox.setValue: rounds to the decimals, then bounds to the range
SpinRound(v) == ((v + (Cent \div 2)) \div Cent) * Cent
SpinBound(v) == IF v > CashInputMax THEN CashInputMax ELSE IF v < 0 THEN 0 ELSE v
SpinValue(v) == SpinBound(SpinRound(v))
\* cash_input.setValue(simulated_cash): valueChanged is emitted only when the
\* value of the spin box changes, and then set_cash stores the value of the
\* spin box in simulated_cash.
set_cash(value) == value
CashAfterSetValue(c, input) ==
    IF SpinValue(c) # input THEN set_cash(SpinValue(c)) ELSE c

VARIABLES
    simulated_cash,     \* SettingsTab.simulated_cash
    cash_input,         \* value held by SettingsTab.cash_input
    portfolio,          \* MarketDataTab.portfolio: symbol -> quantity
    watchlist_symbols,  \* MarketDataTab.watchlist_symbols
    auto_trade_rules,   \* AutoTradingTab.auto_trade_rules
    rules_table,        \* rows of rules_table: the rule each Remove button was made for
    timer_active,       \* AutoTradingTab.timer.isActive()
    start_button,       \* start_button.isEnabled()
    stop_button,        \* stop_button.isEnabled()
    stack,              \* handlers blocked in a modal dialog, innermost last
    next_id             \* identity of the next rule object created

vars == <<simulated_cash, cash_input, portfolio, watchlist_symbols,
          auto_trade_rules, rules_table, timer_active, start_button,
          stop_button, stack, next_id>>

ledger == <<simulated_cash, cash_input, portfolio>>
engine == <<auto_trade_rules, rules_table, next_id>>
controls == <<timer_active, start_button, stop_button>>

Init ==
    /\ simulated_cash = InitialCash
    /\ cash_input = InitialCash
    /\ portfolio = EmptyDict
    /\ watchlist_symbols = <<>>
    /\ auto_trade_rules = <<>>
    /\ rules_table = <<>>
    /\ timer_active = FALSE
    /\ start_button = TRUE
    /\ stop_button = FALSE
    /\ stack = <<>>
    /\ next_id = 1

\* No handler is running or blocked: the user can reach every control.
Idle == stack = <<>>

\* ---------------------------------------------------------------------
\* SettingsTab: the user edits the cash spin box; valueChanged calls set_cash
\* with the new value of the spin box.
CashInputs == {v \in 0..CashInputMax : v % Cent = 0}

CashEdited(value) ==
    /\ Idle
    /\ value \in CashInputs
    /\ value # cash_input
    /\ cash_input' = value
    /\ simulated_cash' = set_cash(value)
    /\ UNCHANGED <<portfolio, watchlist_symbols, engine, controls, stack>>

\* ---------------------------------------------------------------------
\* MarketDataTab._execute_buy(symbol, quantity), reached from
\* buy_stock_from_search and buy_stock_from_watchlist.  d is what
\* yf.download returns, refresh is whether update_portfolio_and_cash (line
\* 496) returns ("ok") or raises ("raise") into the handler of line 506.
Refreshes == {"ok", "raise"}

\* price = float(last_close) if pd.notna(last_close) else 0.0
BuyPrice(d) == IF d.kind = "nan" THEN 0 ELSE d.close

\* the download gives the handler a last close to price the buy with
BuyPriced(d) == d.kind \in {"ok", "nan"}

\* a buy that appends the symbol whether the list has it or not
WatchlistAfterBuy_Always(symbol, refresh) ==
    IF refresh = "ok"
    THEN Append(watchlist_symbols, symbol)
    ELSE watchlist_symbols

WatchlistAfterBuy(symbol, refresh) ==
    IF refresh = "ok" /\ ~InList(watchlist_symbols, symbol)
    THEN Append(watchlist_symbols, symbol)
    ELSE watchlist_symbols

\* a buy that ignores the cash
Affordable_Always(total_cost) == TRUE

\* line 490: the cash covers the cost
Affordable(total_cost) == simulated_cash >= total_cost

_execute_buy(symbol, quantity, d, refresh) ==
    /\ Idle
    /\ Get(portfolio, symbol) + quantity <= MaxHold
    /\ IF symbol # "" /\ BuyPriced(d)
          /\ Affordable(BuyPrice(d) * quantity)
       THEN LET total_cost == BuyPrice(d) * quantity
                debited == simulated_cash - total_cost
            IN /\ simulated_cash' = CashAfterSetValue(debited, cash_input)
               /\ cash_input' = SpinValue(debited)
               /\ portfolio' = Put(portfolio, symbol, Get(portfolio, symbol) + quantity)
               /\ watchlist_symbols' = WatchlistAfterBuy(symbol, refresh)
       ELSE UNCHANGED <<ledger, watchlist_symbols>>
    /\ UNCHANGED <<engine, controls, stack>>

\* ---------------------------------------------------------------------
\* MarketDataTab.sell_stock(symbol).  The handler reads the quantity owned,
\* then blocks in QInputDialog.getInt (1 .. quantity_owned); the timer can
\* fire while it is blocked.
Frame(kind, pc, i, executed, symbol, quantity_owned) ==
    [kind |-> kind, pc |-> pc, i |-> i, executed |-> executed,
     symbol |-> symbol, quantity_owned |-> quantity_owned]

Top == stack[Len(stack)]
Pop == SubSeq(stack, 1, Len(stack) - 1)

\* line 517; a symbol that is not held only gets the "No Shares" box
sell_stock(symbol) ==
    /\ Idle
    /\ IF symbol # "" /\ symbol \in DOMAIN portfolio /\ portfolio[symbol] > 0
       THEN stack' = Append(stack, Frame("sell", "getInt", 0, <<>>, symbol,
                                         portfolio[symbol]))
       ELSE UNCHANGED stack
    /\ UNCHANGED <<ledger, watchlist_symbols, engine, controls>>

\* price = 0.0, replaced by the last close when the frame has one
SellPrice(fetched) == IF fetched.kind = "ok" THEN fetched.close ELSE 0

\* a sell that keeps a holding of 0
SellHolding_KeepsZero(symbol, quantity) ==
    Put(portfolio, symbol, portfolio[symbol] - quantity)

\* lines 543 and 547-549: the holding is reduced, and deleted at 0
SellHolding(symbol, quantity) ==
    IF portfolio[symbol] - quantity = 0
    THEN Del(portfolio, symbol)
    ELSE Put(portfolio, symbol, portfolio[symbol] - quantity)

\* a check that only looks whether the symbol is held
Holds_Any(symbol, quantity) == symbol \in DOMAIN portfolio

\* a check against the quantity that was read before the dialog opened
Holds_Stale(symbol, quantity) ==
    symbol \in DOMAIN portfolio /\ quantity <= Top.quantity_owned

\* line 541: the holding covers the quantity
Holds(symbol, quantity) == Get(portfolio, symbol) >= quantity

\* a sell that drops the sell rules the holding no longer covers
sell_stock_accept_Purges(quantity_to_sell, d) ==
    /\ stack # <<>>
    /\ Top.kind = "sell"
    /\ quantity_to_sell \in 1..Top.quantity_owned
    /\ LET symbol == Top.symbol
           price == SellPrice(StockFetcherFetch(d))
           credited == simulated_cash + price * quantity_to_sell
       IN /\ credited <= MaxCash
          /\ IF Holds(symbol, quantity_to_sell)
             THEN /\ portfolio' = SellHolding(symbol, quantity_to_sell)
                  /\ simulated_cash' = CashAfterSetValue(credited, cash_input)
                  /\ cash_input' = SpinValue(credited)
             ELSE UNCHANGED ledger
    /\ stack' = Pop
    /\ auto_trade_rules' =
          SelectSeq(auto_trade_rules,
                    LAMBDA rule : \/ rule.type = "Buy (Limit)"
                                  \/ Get(portfolio', rule.symbol) >= rule.quantity)
    /\ UNCHANGED <<watchlist_symbols, rules_table, next_id, controls>>

sell_stock_accept(quantity_to_sell, d) ==
    /\ stack # <<>>
    /\ Top.kind = "sell"
    /\ quantity_to_sell \in 1..Top.quantity_owned
    /\ LET symbol == Top.symbol
           price == SellPrice(StockFetcherFetch(d))
           credited == simulated_cash + price * quantity_to_sell
       IN /\ credited <= MaxCash
          /\ IF Holds(symbol, quantity_to_sell)
             THEN /\ portfolio' = SellHolding(symbol, quantity_to_sell)
                  /\ simulated_cash' = CashAfterSetValue(credited, cash_input)
                  /\ cash_input' = SpinValue(credited)
             ELSE UNCHANGED ledger
    /\ stack' = Pop
    /\ UNCHANGED <<watchlist_symbols, engine, controls>>

sell_stock_cancel ==
    /\ stack # <<>>
    /\ Top.kind = "sell"
    /\ stack' = Pop
    /\ UNCHANGED <<ledger, watchlist_symbols, engine, controls>>

\* ---------------------------------------------------------------------
\* MarketDataTab.update_portfolio_table: what the portfolio table and the
\* total label show, quotes being what yf.download returns for each held
\* symbol.
\* price = 0.0, replaced by the last close when the frame has one
HoldingPrice(fetched) == IF fetched.kind = "ok" THEN fetched.close ELSE 0

\* stock_value += value, over the rows
RECURSIVE stock_value(_)
stock_value(rows) ==
    IF DOMAIN rows = {} THEN 0
    ELSE LET s == CHOOSE t \in DOMAIN rows : TRUE
         IN rows[s].value + stock_value([t \in (DOMAIN rows) \ {s} |-> rows[t]])

update_portfolio_table(quotes) ==
    LET rows == [s \in DOMAIN portfolio |->
                    LET price == HoldingPrice(StockFetcherFetch(quotes[s]))
                    IN [price |-> price, quantity |-> portfolio[s],
                        value |-> price * portfolio[s]]]
    IN [rows |-> rows,
        total_portfolio_value |-> stock_value(rows) + simulated_cash]

\* ---------------------------------------------------------------------
\* MarketDataTab: the watch list
_add_stock_to_watchlist_handler(symbol, d) ==
    /\ Idle
    /\ IF symbol # "" /\ d.kind \notin {"raise", "empty"}
          /\ ~InList(watchlist_symbols, symbol)
       THEN watchlist_symbols' = Append(watchlist_symbols, symbol)
       ELSE UNCHANGED watchlist_symbols
    /\ UNCHANGED <<ledger, engine, controls, stack>>

\* a watch list that lets go of every symbol
Removable_Any(symbol) == TRUE

\* lines 327 and 420: symbol not in self.portfolio
Removable(symbol) == symbol \notin DOMAIN portfolio

remove_from_watchlist(symbol) ==
    /\ Idle
    /\ IF InList(watchlist_symbols, symbol) /\ Removable(symbol)
       THEN watchlist_symbols' = ListRemove(watchlist_symbols, symbol)
       ELSE UNCHANGED watchlist_symbols
    /\ UNCHANGED <<ledger, engine, controls, stack>>

_clear_watchlist_handler ==
    /\ Idle
    /\ watchlist_symbols' = SelectSeq(watchlist_symbols, LAMBDA s : ~Removable(s))
    /\ UNCHANGED <<ledger, engine, controls, stack>>

\* ---------------------------------------------------------------------
\* AutoTradingTab: the rule list.  id is the identity of the rule object
\* (two rules with equal fields are different objects).  Two fields are
\* read by the properties only: execs counts the trades the rule has
\* executed, outcome is what the pass in progress did with the rule
\* ("skipped": no price, "failed": the ledger refused, "traded").
Rule(id, symbol, rule_type, target_price, quantity) ==
    [id |-> id, symbol |-> symbol, type |-> rule_type,
     target_price |-> target_price, quantity |-> quantity, execs |-> 0,
     outcome |-> ""]

Counted(execs) == IF execs < MaxExecs THEN execs + 1 ELSE execs

\* a table that is not filled again
update_rules_table_Stale(rules) == rules_table

\* update_rules_table: one row per rule, its Remove button bound to the row index
update_rules_table(rules) == [k \in 1..Len(rules) |-> rules[k].id]

\* no validation
RuleAccepted_Any(symbol, rule_type, quantity) == TRUE

\* a validation that does not look at the portfolio
RuleAccepted_Unowned(symbol, rule_type, quantity) == symbol # ""

\* the validation of add_auto_trade_rule (lines 110-118)
RuleAccepted(symbol, rule_type, quantity) ==
    /\ symbol # ""
    /\ rule_type # BUY_LIMIT =>
          (symbol \in DOMAIN portfolio /\ Get(portfolio, symbol) >= quantity)

\* an add that edits in place the rule the list has for the symbol
add_auto_trade_rule_Edits(symbol, rule_type, target_price, quantity) ==
    /\ Idle
    /\ next_id <= MaxRuleId
    /\ IF RuleAccepted(symbol, rule_type, quantity)
       THEN IF \E k \in 1..Len(auto_trade_rules) : auto_trade_rules[k].symbol = symbol
            THEN /\ auto_trade_rules' =
                       [k \in 1..Len(auto_trade_rules) |->
                           IF auto_trade_rules[k].symbol = symbol
                           THEN [auto_trade_rules[k] EXCEPT
                                    !.type = rule_type,
                                    !.target_price = target_price,
                                    !.quantity = quantity]
                           ELSE auto_trade_rules[k]]
                 /\ UNCHANGED <<rules_table, next_id>>
            ELSE /\ auto_trade_rules' = Append(auto_trade_rules,
                         Rule(next_id, symbol, rule_type, target_price, quantity))
                 /\ rules_table' = update_rules_table(auto_trade_rules')
                 /\ next_id' = next_id + 1
       ELSE UNCHANGED engine
    /\ UNCHANGED <<ledger, watchlist_symbols, controls, stack>>

add_auto_trade_rule(symbol, rule_type, target_price, quantity) ==
    /\ Idle
    /\ next_id <= MaxRuleId
    /\ IF RuleAccepted(symbol, rule_type, quantity)
       THEN /\ auto_trade_rules' = Append(auto_trade_rules,
                    Rule(next_id, symbol, rule_type, target_price, quantity))
            /\ rules_table' = update_rules_table(auto_trade_rules')
            /\ next_id' = next_id + 1
       ELSE UNCHANGED engine
    /\ UNCHANGED <<ledger, watchlist_symbols, controls, stack>>

\* the Remove button of a row calls remove_auto_trade_rule with the index the
\* row had when the table was last filled
remove_auto_trade_rule(rule_index) ==
    /\ Idle
    /\ rule_index \in 0..(Len(rules_table) - 1)
    /\ IF 0 <= rule_index /\ rule_index < Len(auto_trade_rules)
       THEN /\ auto_trade_rules' = DelAt(auto_trade_rules, rule_index)
            /\ rules_table' = update_rules_table(auto_trade_rules')
       ELSE UNCHANGED <<auto_trade_rules, rules_table>>
    /\ UNCHANGED <<next_id, ledger, watchlist_symbols, controls, stack>>

\* a start that restarts the timer it finds running, and stops it
start_simulation_Toggle ==
    /\ Idle
    /\ timer_active' = ~timer_active
    /\ start_button' = timer_active
    /\ stop_button' = ~timer_active
    /\ UNCHANGED <<ledger, watchlist_symbols, engine, stack>>

start_simulation ==
    /\ Idle
    /\ IF ~timer_active
       THEN /\ timer_active' = TRUE
            /\ start_button' = FALSE
            /\ stop_button' = TRUE
       ELSE UNCHANGED controls
    /\ UNCHANGED <<ledger, watchlist_symbols, engine, stack>>

\* a stop that leaves the buttons as they are
stop_simulation_Silent ==
    /\ Idle
    /\ timer_active' = FALSE
    /\ UNCHANGED <<start_button, stop_button>>
    /\ UNCHANGED <<ledger, watchlist_symbols, engine, stack>>

stop_simulation ==
    /\ Idle
    /\ IF timer_active
       THEN /\ timer_active' = FALSE
            /\ start_button' = TRUE
            /\ stop_button' = FALSE
       ELSE UNCHANGED controls
    /\ UNCHANGED <<ledger, watchlist_symbols, engine, stack>>

\* ---------------------------------------------------------------------
\* AutoTradingTab.check_auto_trade_rules, the slot of timer.timeout.
\* A frame of kind "tick" is one call: i is the index of enumerate,
\* executed is executed_rules_indices, pc is "loop" while the call runs and
\* "executed" / "failed" while it is blocked in the QMessageBox of a trade
\* that was executed / of a buy that failed.
Blocked(f) == f.pc \in {"getInt", "executed", "failed"}

\* The event loop (the main one, or the one of the innermost dialog)
\* delivers a timeout of the running timer, unless the slot of an earlier
\* timeout has not returned yet: that firing is dropped.
InProgress == \E k \in 1..Len(stack) : stack[k].kind = "tick"

\* a timer whose timeout is delivered again while its slot is blocked
timeout_Reentrant ==
    /\ timer_active
    /\ Len(stack) < 3
    /\ stack # <<>> => Blocked(Top)
    /\ stack' = Append(stack, Frame("tick", "loop", 0, <<>>, "", 0))
    /\ UNCHANGED <<ledger, watchlist_symbols, engine, controls>>

\* a timer that fires whether it was started or not
timeout_Stopped ==
    /\ ~InProgress
    /\ stack # <<>> => Blocked(Top)
    /\ stack' = Append(stack, Frame("tick", "loop", 0, <<>>, "", 0))
    /\ UNCHANGED <<ledger, watchlist_symbols, engine, controls>>

timeout ==
    /\ timer_active
    /\ ~InProgress
    /\ stack # <<>> => Blocked(Top)
    /\ stack' = Append(stack, Frame("tick", "loop", 0, <<>>, "", 0))
    /\ UNCHANGED <<ledger, watchlist_symbols, engine, controls>>

\* a check that lets a NaN close through
Available_NaN(fetched) == fetched.kind \in {"ok", "nan"}

\* not data.empty, the Close column is there and its last value is not NaN
Available(fetched) == fetched.kind = "ok"

\* a trigger that leaves out the close equal to the target
Triggers_Strict(rule_type, current_price, target_price) ==
    IF rule_type = SELL_TAKE_PROFIT
    THEN current_price > target_price
    ELSE current_price < target_price

\* the trigger predicate of lines 226, 247 and 268
Triggers(rule_type, current_price, target_price) ==
    IF rule_type = SELL_TAKE_PROFIT
    THEN current_price >= target_price
    ELSE current_price <= target_price

\* a rule that trades without looking at the ledger
CanTrade_Unchecked(rule, current_price) == TRUE

\* the ledger check of lines 230, 247 and 268
CanTrade(rule, current_price) ==
    IF rule.type = BUY_LIMIT
    THEN simulated_cash >= current_price * rule.quantity
    ELSE Get(portfolio, rule.symbol) >= rule.quantity

WithTop(f) == [stack EXCEPT ![Len(stack)] = f]
\* a loop that steps over a rule
Continue_Skip(f) == [f EXCEPT !.pc = "loop", !.i = f.i + 2]

\* the loop of line 198 goes on with the next rule
Continue(f) == [f EXCEPT !.pc = "loop", !.i = f.i + 1]

\* lines 231-232, 251-254 and 272-275
RuleTrade(rule, current_price) ==
    IF rule.type = BUY_LIMIT
    THEN /\ Get(portfolio, rule.symbol) + rule.quantity <= MaxHold
         /\ simulated_cash' = simulated_cash - current_price * rule.quantity
         /\ portfolio' = Put(portfolio, rule.symbol,
                             Get(portfolio, rule.symbol) + rule.quantity)
    ELSE /\ simulated_cash + current_price * rule.quantity <= MaxCash
         /\ simulated_cash' = simulated_cash + current_price * rule.quantity
         /\ portfolio' = SellHolding(rule.symbol, rule.quantity)

\* an exception that leaves the loop
AfterTrade_Abort(f, refresh) ==
    IF refresh = "ok" THEN [f EXCEPT !.pc = "executed"]
    ELSE [f EXCEPT !.pc = "loop", !.i = MaxRuleId]

\* trade_executed = True is reached when the refresh and the dialog that
\* follow the trade return; when one raises, line 289 catches it
AfterTrade(f, refresh) ==
    IF refresh = "ok" THEN [f EXCEPT !.pc = "executed"] ELSE Continue(f)

Outcome(i, how) == [auto_trade_rules EXCEPT ![i + 1].outcome = how]

\* One iteration of the loop of line 198, up to the next dialog: d is what
\* yf.download returns for the rule's symbol, refresh whether
\* update_portfolio_and_cash returns or raises.
check_rule(d, refresh) ==
    /\ stack # <<>>
    /\ Top.kind = "tick" /\ Top.pc = "loop"
    /\ Top.i < Len(auto_trade_rules)
    /\ LET f == Top
           rule == auto_trade_rules[f.i + 1]
           fetched == StockFetcherFetch(d)
           current_price == fetched.close
       IN IF ~Available(fetched)
          THEN /\ stack' = WithTop(Continue(f))
               /\ auto_trade_rules' = Outcome(f.i, "skipped")
               /\ UNCHANGED ledger
          ELSE IF ~Triggers(rule.type, current_price, rule.target_price)
          THEN /\ stack' = WithTop(Continue(f))
               /\ UNCHANGED <<ledger, auto_trade_rules>>
          ELSE IF CanTrade(rule, current_price)
          THEN /\ RuleTrade(rule, current_price)
               /\ auto_trade_rules' =
                      [auto_trade_rules EXCEPT ![f.i + 1].execs = Counted(@),
                                               ![f.i + 1].outcome = "traded"]
               /\ stack' = WithTop(AfterTrade(f, refresh))
               /\ UNCHANGED cash_input
          ELSE /\ stack' = WithTop(
                      IF rule.type = BUY_LIMIT
                      THEN [f EXCEPT !.pc = "failed"]
                      ELSE Continue(f))
               /\ auto_trade_rules' = Outcome(f.i, "failed")
               /\ UNCHANGED ledger
    /\ UNCHANGED <<watchlist_symbols, rules_table, next_id, controls>>

\* The user closes the message box of the pass.
close_message_box ==
    /\ stack # <<>>
    /\ Top.kind = "tick" /\ Top.pc \in {"executed", "failed"}
    /\ stack' = WithTop(
           IF Top.pc = "executed"
           THEN Continue([Top EXCEPT !.executed = Append(@, Top.i)])
           ELSE Continue(Top))
    /\ UNCHANGED <<ledger, watchlist_symbols, engine, controls>>

\* lines 293-294: del auto_trade_rules[index] for the recorded indices, the
\* largest first; an index past the end of the list raises IndexError.
RECURSIVE DeleteExecuted(_, _)
DeleteExecuted(rules, indices) ==
    IF indices = <<>> THEN [rules |-> rules, error |-> FALSE]
    ELSE LET index == indices[Len(indices)]
         IN IF index < Len(rules)
            THEN DeleteExecuted(DelAt(rules, index), SubSeq(indices, 1, Len(indices) - 1))
            ELSE [rules |-> rules, error |-> TRUE]

\* outcome is cleared when the pass ends
Settled(rules) == [k \in 1..Len(rules) |-> [rules[k] EXCEPT !.outcome = ""]]

\* The loop is over: the recorded indices are deleted and the table is
\* refilled (an IndexError would leave the slot before the table is).
end_pass ==
    /\ stack # <<>>
    /\ Top.kind = "tick" /\ Top.pc = "loop"
    /\ Top.i >= Len(auto_trade_rules)
    /\ LET done == DeleteExecuted(auto_trade_rules, Top.executed)
       IN /\ auto_trade_rules' = Settled(done.rules)
          /\ rules_table' = IF done.error THEN rules_table
                            ELSE update_rules_table(done.rules)
    /\ stack' = Pop
    /\ UNCHANGED <<ledger, watchlist_symbols, next_id, controls>>

\* ---------------------------------------------------------------------
\* check_auto_trade_rules as a function of the list it goes over: quote is
\* what yf.download returns during the tick for each symbol, cash and held
\* are the ledger the pass starts from; the refreshes and the message boxes
\* return.  The result is the ledger after the pass and the rules that the
\* pass deletes.
\* lines 230, 247 and 268: the ledger covers the trade
Covered(rule, current_price, cash, held) ==
    IF rule.type = BUY_LIMIT
    THEN cash >= current_price * rule.quantity
    ELSE Get(held, rule.symbol) >= rule.quantity

\* lines 231, 252 and 273
CashTraded(rule, current_price, cash) ==
    IF rule.type = BUY_LIMIT
    THEN cash - current_price * rule.quantity
    ELSE cash + current_price * rule.quantity

\* lines 232, 251-254 and 272-275
HeldTraded(rule, held) ==
    IF rule.type = BUY_LIMIT
    THEN Put(held, rule.symbol, Get(held, rule.symbol) + rule.quantity)
    ELSE IF held[rule.symbol] - rule.quantity = 0
         THEN Del(held, rule.symbol)
         ELSE Put(held, rule.symbol, held[rule.symbol] - rule.quantity)

\* the close is available and the rule's condition on it is true
Triggered(rule, quote) ==
    LET fetched == StockFetcherFetch(quote[rule.symbol])
    IN Available(fetched)
          /\ Triggers(rule.type, fetched.close, rule.target_price)

\* a pass that returns after its first trade
RECURSIVE PassOver_FirstTrade(_, _, _, _)
PassOver_FirstTrade(rules, quote, cash, held) ==
    IF rules = <<>> THEN [cash |-> cash, held |-> held, consumed |-> {}]
    ELSE LET rule == Head(rules)
             current_price == StockFetcherFetch(quote[rule.symbol]).close
         IN IF Triggered(rule, quote) /\ Covered(rule, current_price, cash, held)
            THEN [cash |-> CashTraded(rule, current_price, cash),
                  held |-> HeldTraded(rule, held), consumed |-> {rule.id}]
            ELSE PassOver_FirstTrade(Tail(rules), quote, cash, held)

\* the loop of line 198 and the deletion of lines 293-294
RECURSIVE PassOver(_, _, _, _)
PassOver(rules, quote, cash, held) ==
    IF rules = <<>> THEN [cash |-> cash, held |-> held, consumed |-> {}]
    ELSE LET rule == Head(rules)
             current_price == StockFetcherFetch(quote[rule.symbol]).close
         IN IF Triggered(rule, quote) /\ Covered(rule, current_price, cash, held)
            THEN LET rest == PassOver(Tail(rules), quote,
                                      CashTraded(rule, current_price, cash),
                                      HeldTraded(rule, held))
                 IN [rest EXCEPT !.consumed = @ \cup {rule.id}]
            ELSE PassOver(Tail(rules), quote, cash, held)

\* stock_fetcher.fetch calls yf.download without a timeout of its own, in
\* the thread of the event loop: while the download does not return, the
\* pass stays at line 208 and the event loop serves nothing.
fetch_hangs ==
    /\ stack # <<>>
    /\ Top.kind = "tick" /\ Top.pc = "loop"
    /\ Top.i < Len(auto_trade_rules)
    /\ stack' = WithTop([Top EXCEPT !.pc = "fetch"])
    /\ UNCHANGED <<ledger, watchlist_symbols, engine, controls>>

\* ---------------------------------------------------------------------

Next ==
    \/ \E value \in CashInputs : CashEdited(value)
    \/ \E symbol \in Keyed, quantity \in Quantities, d \in Downloads,
          refresh \in Refreshes : _execute_buy(symbol, quantity, d, refresh)
    \/ \E symbol \in Keyed : sell_stock(symbol)
    \/ \E quantity \in 1..MaxHold, d \in Downloads : sell_stock_accept(quantity, d)
    \/ sell_stock_cancel
    \/ \E symbol \in Keyed, d \in Downloads :
          _add_stock_to_watchlist_handler(symbol, d)
    \/ \E symbol \in Keyed : remove_from_watchlist(symbol)
    \/ _clear_watchlist_handler
    \/ \E symbol \in Keyed, rule_type \in RuleTypes,
          target_price \in TargetPrices, quantity \in RuleQuantities :
          add_auto_trade_rule(symbol, rule_type, target_price, quantity)
    \/ \E rule_index \in 0..(MaxRuleId - 1) : remove_auto_trade_rule(rule_index)
    \/ start_simulation
    \/ stop_simulation
    \/ timeout
    \/ \E d \in Downloads, refresh \in Refreshes : check_rule(d, refresh)
    \/ close_message_box
    \/ end_pass

Spec == Init /\ [][Next]_vars

\* The market data and settings tabs alone, with every symbol: the manual
\* trades, the cash input and the watch list.
KeyedMarket == Symbols \cup {""}

NextMarket ==
    \/ \E value \in CashInputs : CashEdited(value)
    \/ \E symbol \in KeyedMarket, quantity \in Quantities, d \in Downloads,
          refresh \in Refreshes : _execute_buy(symbol, quantity, d, refresh)
    \/ \E symbol \in KeyedMarket : sell_stock(symbol)
    \/ \E quantity \in 1..MaxHold, d \in Downloads : sell_stock_accept(quantity, d)
    \/ sell_stock_cancel
    \/ \E symbol \in KeyedMarket, d \in Downloads :
          _add_stock_to_watchlist_handler(symbol, d)
    \/ \E symbol \in KeyedMarket : remove_from_watchlist(symbol)
    \/ _clear_watchlist_handler

SpecMarket == Init /\ [][NextMarket]_vars

\* The auto trading tab with the manual buys that give it a portfolio to
\* sell from; the rules take every quantity of Quantities.
NextRules ==
    \/ \E symbol \in Keyed, quantity \in Quantities, d \in Downloads,
          refresh \in Refreshes : _execute_buy(symbol, quantity, d, refresh)
    \/ \E symbol \in Keyed, rule_type \in RuleTypes,
          target_price \in TargetPrices, quantity \in Quantities :
          add_auto_trade_rule(symbol, rule_type, target_price, quantity)
    \/ \E rule_index \in 0..(MaxRuleId - 1) : remove_auto_trade_rule(rule_index)
    \/ start_simulation
    \/ stop_simulation
    \/ timeout
    \/ \E d \in Downloads, refresh \in Refreshes : check_rule(d, refresh)
    \/ close_message_box
    \/ end_pass

SpecRules == Init /\ [][NextRules]_vars

\* The auto trading tab on its own, with a download that may not return.
\* A pass that can take a step takes one: the slot runs on until it
\* returns, and the user closes the message boxes.
NextFetch ==
    \/ \E symbol \in Keyed, rule_type \in RuleTypes,
          target_price \in TargetPrices, quantity \in RuleQuantities :
          add_auto_trade_rule(symbol, rule_type, target_price, quantity)
    \/ \E rule_index \in 0..(MaxRuleId - 1) : remove_auto_trade_rule(rule_index)
    \/ start_simulation
    \/ stop_simulation
    \/ timeout
    \/ \E d \in Downloads, refresh \in Refreshes : check_rule(d, refresh)
    \/ fetch_hangs
    \/ close_message_box
    \/ end_pass

SpecFetch ==
    /\ Init
    /\ [][NextFetch]_vars
    /\ WF_vars(\E d \in Downloads, refresh \in Refreshes : check_rule(d, refresh))
    /\ WF_vars(close_message_box)
    /\ WF_vars(end_pass)

\* The auto trading tab with the manual buys, a pass that can take a step
\* taking one: the slot runs on until it returns, and the user closes the
\* message boxes.
SpecRetry ==
    /\ Init
    /\ [][NextRules]_vars
    /\ WF_vars(\E d \in Downloads, refresh \in Refreshes : check_rule(d, refresh))
    /\ WF_vars(close_message_box)
    /\ WF_vars(end_pass)

\* =====================================================================
\* Properties

Rules == 1..Len(auto_trade_rules)
Ticks == {k \in 1..Len(stack) : stack[k].kind = "tick"}
\* a pass is blocked in the message box of the trade it has just executed
TradeShown ==
    /\ stack # <<>>
    /\ Top.kind = "tick" /\ Top.pc = "executed"
\* a pass has evaluated every rule and is about to delete the recorded ones
LoopOver ==
    /\ stack # <<>>
    /\ Top.kind = "tick" /\ Top.pc = "loop"
    /\ Top.i >= Len(auto_trade_rules)
\* a pass is about to evaluate the rule at Top.i
Evaluating ==
    /\ stack # <<>>
    /\ Top.kind = "tick" /\ Top.pc = "loop"
    /\ Top.i < Len(auto_trade_rules)
\* this step is the end of a pass
PassEnds == stack # <<>> /\ Top.kind = "tick" /\ stack' = Pop
\* the rule that check_rule evaluates
Current == auto_trade_rules[Top.i + 1]
\* no close is available from the download
NoClose(d) == d.kind \in {"raise", "empty", "nocol", "nan"}

\* C1: cash is never negative, whatever manual buys and sells, rule-triggered
\* buys and sells and edits of the cash input have happened.
C1_CashNeverNegative == simulated_cash >= 0

\* a rule-triggered buy has just spent the last of the cash
C1_Witness ==
    /\ TradeShown
    /\ Current.type = BUY_LIMIT
    /\ simulated_cash = 0
    /\ "A" \in DOMAIN portfolio

\* C2: every symbol in the portfolio has a quantity > 0; a holding that a
\* sell brings to 0 is deleted.
C2_HoldingsPositive == \A s \in DOMAIN portfolio : portfolio[s] > 0

\* a rule-triggered sell has just sold the whole holding
C2_Witness ==
    /\ TradeShown
    /\ Current.type # BUY_LIMIT
    /\ "A" \notin DOMAIN portfolio

\* C3: a rule executes at most one trade in its lifetime.
C3_ConsumptionOnce == \A k \in Rules : auto_trade_rules[k].execs <= 1

Bought(symbol, quantity, price) ==
    /\ simulated_cash' = simulated_cash - price * quantity
    /\ portfolio' = Put(portfolio, symbol, Get(portfolio, symbol) + quantity)

C5_NoPartialBuy ==
    [][/\ \A symbol \in Keyed, quantity \in Quantities, d \in Downloads,
             refresh \in Refreshes :
             _execute_buy(symbol, quantity, d, refresh) =>
                \/ UNCHANGED <<simulated_cash, portfolio>>
                \/ Bought(symbol, quantity, BuyPrice(d))
       /\ \A d \in Downloads, refresh \in Refreshes :
             (check_rule(d, refresh) /\ Current.type = BUY_LIMIT) =>
                \/ UNCHANGED <<simulated_cash, portfolio>>
                \/ Bought(Current.symbol, Current.quantity, d.close)]_vars

\* C6: a manual buy for which no close is available changes neither the
\* cash, nor the portfolio, nor the watch list.
C6_BuyNeedsClose ==
    [][\A symbol \in Keyed, quantity \in Quantities, d \in Downloads,
          refresh \in Refreshes :
          (_execute_buy(symbol, quantity, d, refresh) /\ NoClose(d)) =>
             UNCHANGED <<simulated_cash, portfolio, watchlist_symbols>>]_vars

\* C7: a manual sell for which no close is available changes neither the
\* cash nor the portfolio.
C7_SellNeedsClose ==
    [][\A quantity \in 1..MaxHold, d \in Downloads :
          (sell_stock_accept(quantity, d) /\ NoClose(d)) =>
             UNCHANGED <<simulated_cash, portfolio>>]_vars

\* C8: a rule for whose symbol no price is available during a tick is
\* skipped: the step that skips it changes neither the cash, nor the
\* portfolio, nor the rule list, and the rule is still in the list when the
\* tick is over.
C8_SkipKeepsRule ==
    [][/\ \A d \in Downloads, refresh \in Refreshes :
             (check_rule(d, refresh) /\ NoClose(d)) =>
                /\ UNCHANGED <<simulated_cash, portfolio>>
                /\ Ids(auto_trade_rules') = Ids(auto_trade_rules)
       /\ PassEnds =>
             \A k \in Rules :
                auto_trade_rules[k].outcome = "skipped" =>
                   auto_trade_rules[k].id \in Ids(auto_trade_rules')]_vars

\* a pass that has recorded a trade and skipped a rule is about to delete
C8_Witness ==
    /\ LoopOver
    /\ Top.executed # <<>>
    /\ \E k \in Rules : auto_trade_rules[k].outcome = "skipped"

\* C9: a rule whose trigger is true and whose ledger operation fails (cash
\* short for a buy, shares short for a sell) is kept: the step leaves the
\* cash and the portfolio alone, and the rule is still in the list when the
\* tick is over.
Short(rule, current_price) ==
    IF rule.type = BUY_LIMIT
    THEN simulated_cash < current_price * rule.quantity
    ELSE Get(portfolio, rule.symbol) < rule.quantity

C9_FailedTradeKeepsRule ==
    [][/\ \A p \in 0..MaxPrice, refresh \in Refreshes :
             (/\ check_rule([kind |-> "ok", close |-> p], refresh)
              /\ Triggers(Current.type, p, Current.target_price)
              /\ Short(Current, p)) =>
                /\ UNCHANGED <<simulated_cash, portfolio>>
                /\ Ids(auto_trade_rules') = Ids(auto_trade_rules)
       /\ PassEnds =>
             \A k \in Rules :
                auto_trade_rules[k].outcome = "failed" =>
                   auto_trade_rules[k].id \in Ids(auto_trade_rules')]_vars

\* a pass that has recorded a trade and failed a trade is about to delete
C9_Witness ==
    /\ LoopOver
    /\ Top.executed # <<>>
    /\ \E k \in Rules : auto_trade_rules[k].outcome = "failed"

\* C10: a rule leaves the list only when the user removes that rule or
\* after that rule has executed a trade.
RemovedByUser(k) ==
    /\ k <= Len(rules_table)
    /\ rules_table[k] = auto_trade_rules[k].id
    /\ remove_auto_trade_rule(k - 1)

C10_OnlyOwnRemoval ==
    [][\A k \in Rules :
          auto_trade_rules[k].id \notin Ids(auto_trade_rules') =>
             \/ auto_trade_rules[k].execs >= 1
             \/ RemovedByUser(k)]_vars

\* a pass that has recorded a trade is about to delete, and the list holds
\* a rule that was evaluated and did not trade
C10_Witness ==
    /\ LoopOver
    /\ Top.executed # <<>>
    /\ \E k \in Rules :
          auto_trade_rules[k].execs = 0 /\ auto_trade_rules[k].outcome = ""

\* C11: two sell rules on one symbol whose triggers are both true in a
\* tick, the holding covering the first and not both: the first sells its
\* quantity and only that, the second sells nothing, and when the tick is
\* over the first has left the list and the second is still in it.
SellRule(rule) == rule.type \in {SELL_STOP_LOSS, SELL_TAKE_PROFIT}

C11_TieBreak ==
    [][/\ \A p \in 0..MaxPrice, refresh \in Refreshes :
             (/\ check_rule([kind |-> "ok", close |-> p], refresh)
              /\ SellRule(Current)
              /\ Triggers(Current.type, p, Current.target_price)) =>
                Get(portfolio', Current.symbol) =
                   IF Get(portfolio, Current.symbol) >= Current.quantity
                   THEN Get(portfolio, Current.symbol) - Current.quantity
                   ELSE Get(portfolio, Current.symbol)
       /\ PassEnds =>
             \A k, l \in Rules :
                (/\ k < l
                 /\ SellRule(auto_trade_rules[k]) /\ SellRule(auto_trade_rules[l])
                 /\ auto_trade_rules[k].symbol = auto_trade_rules[l].symbol
                 /\ auto_trade_rules[k].outcome = "traded"
                 /\ auto_trade_rules[l].outcome = "failed") =>
                   /\ auto_trade_rules[k].id \notin Ids(auto_trade_rules')
                   /\ auto_trade_rules[l].id \in Ids(auto_trade_rules')]_vars

\* C12: every symbol of the portfolio is in the watch list.
C12_WatchCoversHeld ==
    \A s \in DOMAIN portfolio : InList(watchlist_symbols, s)

\* C13: a symbol of the portfolio is never taken out of the watch list: no
\* step removes it, and remove_from_watchlist on it leaves the list as it is.
C13_HeldStaysWatched ==
    [][/\ \A s \in DOMAIN portfolio :
             InList(watchlist_symbols, s) => InList(watchlist_symbols', s)
       /\ \A s \in DOMAIN portfolio :
             remove_from_watchlist(s) => UNCHANGED watchlist_symbols]_vars

\* the watch list holds a symbol that is held and one that is not
C13_Witness ==
    /\ Idle
    /\ "A" \in DOMAIN portfolio /\ "B" \notin DOMAIN portfolio
    /\ InList(watchlist_symbols, "A") /\ InList(watchlist_symbols, "B")

\* C14: a buy whose cost is more than the cash changes neither the cash,
\* nor the portfolio, nor the watch list, on the manual path and on the
\* rule-triggered path: a step that changes one of them is no such buy.
C14_UnaffordableBuy ==
    [][~UNCHANGED <<simulated_cash, portfolio, watchlist_symbols>> =>
          /\ \A symbol \in Keyed, quantity \in Quantities, d \in Downloads,
                refresh \in Refreshes :
                ~(/\ BuyPriced(d)
                  /\ BuyPrice(d) * quantity > simulated_cash
                  /\ _execute_buy(symbol, quantity, d, refresh))
          /\ \A p \in 0..MaxPrice, refresh \in Refreshes :
                ~(/\ Evaluating
                  /\ Current.type = BUY_LIMIT
                  /\ p * Current.quantity > simulated_cash
                  /\ check_rule([kind |-> "ok", close |-> p], refresh))]_vars

\* a pass is blocked in the message box of a buy the cash did not cover
C14_Witness ==
    /\ stack # <<>>
    /\ Top.kind = "tick" /\ Top.pc = "failed"
    /\ Current.type = BUY_LIMIT
    /\ simulated_cash < MaxPrice * Current.quantity

\* C15: a sell of a symbol that is not held, and a sell of more shares than
\* are held, manual or rule-triggered, change neither the cash nor the
\* portfolio: a step that changes one of them is no such sell.
C15_SellNeedsShares ==
    [][~UNCHANGED <<simulated_cash, portfolio>> =>
          /\ \A symbol \in Keyed :
                ~(symbol \notin DOMAIN portfolio /\ sell_stock(symbol))
          /\ \A quantity \in 1..MaxHold, d \in Downloads :
                ~(/\ stack # <<>>
                  /\ Top.kind = "sell"
                  /\ Get(portfolio, Top.symbol) < quantity
                  /\ sell_stock_accept(quantity, d))
          /\ \A p \in 0..MaxPrice, refresh \in Refreshes :
                ~(/\ Evaluating
                  /\ SellRule(Current)
                  /\ Get(portfolio, Current.symbol) < Current.quantity
                  /\ check_rule([kind |-> "ok", close |-> p], refresh))]_vars

\* the quantity dialog of a sell is open for more shares than are held
\* now: a rule has sold shares of the symbol since the dialog opened
C15_Witness ==
    /\ stack # <<>>
    /\ Top.kind = "sell"
    /\ Top.quantity_owned > Get(portfolio, Top.symbol)

\* C16: from every state, a manual buy of q shares at price p that the cash
\* covers, followed at once by a manual sell of q shares at price p, brings
\* the cash and the portfolio back to what they were.  The cash after the
\* buy and after the sell is computed as _execute_buy and sell_stock_accept
\* compute it.
C16_Conservation ==
    \A symbol \in Symbols, p \in 0..MaxPrice, q \in Quantities :
       p * q <= simulated_cash =>
          LET debited == simulated_cash - p * q
              cash_bought == CashAfterSetValue(debited, cash_input)
              input_bought == SpinValue(debited)
              held_bought == Put(portfolio, symbol, Get(portfolio, symbol) + q)
              credited == cash_bought + p * q
              held_sold == IF held_bought[symbol] - q = 0
                           THEN Del(held_bought, symbol)
                           ELSE Put(held_bought, symbol, held_bought[symbol] - q)
          IN /\ CashAfterSetValue(credited, input_bought) = simulated_cash
             /\ held_sold = portfolio

\* C17: a sell rule is added only when the holding of its symbol covers its
\* quantity at the time of the add; otherwise the add leaves the rule list
\* as it is.
C17_SellRuleNeedsShares ==
    [][\A symbol \in Keyed, rule_type \in RuleTypes \ {BUY_LIMIT},
          target_price \in TargetPrices, quantity \in Quantities :
          add_auto_trade_rule(symbol, rule_type, target_price, quantity) =>
             IF Get(portfolio, symbol) >= quantity
             THEN /\ Len(auto_trade_rules') = Len(auto_trade_rules) + 1
                  /\ SellRule(auto_trade_rules'[Len(auto_trade_rules')])
             ELSE UNCHANGED auto_trade_rules]_vars

\* a sell rule for the whole of a holding of more than one share is in the
\* list
C17_Witness ==
    /\ Idle
    /\ \E k \in Rules :
          /\ SellRule(auto_trade_rules[k])
          /\ auto_trade_rules[k].quantity = MaxQty
          /\ Get(portfolio, auto_trade_rules[k].symbol) = MaxQty

\* C18: every rule of the list has a symbol that is not empty, a target
\* price > 0 and a quantity > 0, and an add with an empty symbol changes
\* nothing.
C18_RulesWellFormed ==
    /\ [](\A k \in Rules :
             /\ auto_trade_rules[k].symbol # ""
             /\ auto_trade_rules[k].target_price > 0
             /\ auto_trade_rules[k].quantity > 0)
    /\ [][\A rule_type \in RuleTypes, target_price \in TargetPrices,
             quantity \in RuleQuantities :
             add_auto_trade_rule("", rule_type, target_price, quantity) =>
                UNCHANGED vars]_vars

\* the list holds a buy rule and a sell rule
C18_Witness ==
    /\ Idle
    /\ \E k, l \in Rules :
          auto_trade_rules[k].type = BUY_LIMIT /\ SellRule(auto_trade_rules[l])

\* C19: the rules of the list are in the order in which they were added,
\* and a tick evaluates them in that order: it starts with the first, goes
\* from each rule to the next, and the list does not change under it.
C19_InsertionOrder ==
    /\ [](\A j, k \in Rules :
             j < k => auto_trade_rules[j].id < auto_trade_rules[k].id)
    /\ [][/\ timeout => stack'[Len(stack')].i = 0
          /\ (/\ stack # <<>>
              /\ Top.kind = "tick"
              /\ Len(stack') = Len(stack)) =>
                /\ stack'[Len(stack')].i =
                      IF Top.pc = "loop" /\ stack'[Len(stack')].pc # "loop"
                      THEN Top.i
                      ELSE Top.i + 1
                /\ update_rules_table(auto_trade_rules') =
                      update_rules_table(auto_trade_rules)]_vars

\* a tick is about to evaluate the second of two rules
C19_Witness ==
    /\ Evaluating
    /\ Top.i = 1
    /\ Len(auto_trade_rules) = 2

C21_SchedulerStates ==
    /\ [](/\ timer_active \in BOOLEAN
          /\ start_button = ~timer_active
          /\ stop_button = timer_active
          /\ Cardinality({k \in 1..Len(stack) : stack[k].pc = "loop"}) <= 1)
    /\ [][/\ (start_simulation /\ timer_active) => UNCHANGED vars
          /\ (stop_simulation /\ ~timer_active) => UNCHANGED vars
          /\ (start_simulation /\ ~timer_active) =>
                (timer_active' /\ UNCHANGED <<ledger, engine, stack>>)
          /\ (stop_simulation /\ timer_active) =>
                (~timer_active' /\ UNCHANGED <<ledger, engine, stack>>)]_vars

\* the scheduler has been started, has traded, and has been stopped
C21_Witness ==
    /\ Idle
    /\ ~timer_active
    /\ \E k \in Rules : auto_trade_rules[k].execs >= 1

\* C22: a pass begins only while the timer is active, so that none begins
\* between a stop and the next start; stop_simulation takes nothing from a
\* pass: it leaves the blocked handlers, the rule list and the ledger as
\* they are, and a pass that has begun ends only when its loop has gone
\* over the whole list, with the recorded rules deleted.  The Stop button is
\* out of reach while a pass is blocked in its message box (the box is
\* modal), so a pass in progress finds the timer active throughout.
PassBegins ==
    /\ Len(stack') = Len(stack) + 1
    /\ stack'[Len(stack')].kind = "tick"

C22_StopCancelsTicks ==
    /\ [](InProgress => timer_active)
    /\ [][/\ PassBegins => (timer_active /\ timer_active')
          /\ stop_simulation => UNCHANGED <<stack, engine, ledger>>
          /\ PassEnds =>
                /\ Top.pc = "loop" /\ Top.i >= Len(auto_trade_rules)
                /\ \A k \in 1..Len(Top.executed) :
                      auto_trade_rules[Top.executed[k] + 1].id
                         \notin Ids(auto_trade_rules')]_vars

\* the timer has been stopped after a pass that traded, with two rules in
\* the list for the pass that a timeout would begin
C22_Witness ==
    /\ Idle
    /\ ~timer_active
    /\ start_button
    /\ Len(auto_trade_rules) = 2
    /\ auto_trade_rules[2].execs >= 1

\* C23: an exception raised while a rule is evaluated (by the download, or
\* by the refresh that follows a trade) is caught inside the loop: the pass
\* goes on with the next rule, it ends only when the loop has gone over the
\* whole list, the table is then filled from the list that the deletion
\* left, and the timer is still active for the passes to come.
C23_ErrorKeepsBatch ==
    [][/\ \A d \in Downloads :
             (/\ Evaluating
              /\ check_rule(d, "raise")
              /\ (d.kind = "raise" \/ portfolio' # portfolio)) =>
                /\ Len(stack') = Len(stack)
                /\ stack'[Len(stack')].pc = "loop"
                /\ stack'[Len(stack')].i = Top.i + 1
                /\ stack'[Len(stack')].executed = Top.executed
                /\ UNCHANGED controls
       /\ PassEnds =>
             /\ Top.i >= Len(auto_trade_rules)
             /\ rules_table' =
                   [k \in 1..Len(auto_trade_rules') |-> auto_trade_rules'[k].id]
             /\ timer_active']_vars

\* the refresh raised after the trade of the first rule, which was not
\* recorded; the pass went on, traded the second rule and recorded it
C23_Witness ==
    /\ LoopOver
    /\ Len(auto_trade_rules) = 2
    /\ auto_trade_rules[1].outcome = "traded"
    /\ Top.executed = <<1>>

\* C24: with a close available, a Buy (Limit) rule and a Sell (Stop Loss)
\* rule trigger exactly when close <= target_price, a Sell (Take Profit)
\* rule exactly when close >= target_price.  A triggered rule trades when
\* the ledger covers it and fails when it does not; a rule that is not
\* triggered leaves the ledger and the recorded indices as they are, and is
\* still in the list when the tick is over.
C24_TriggerPredicate ==
    [][/\ \A p \in 0..MaxPrice, refresh \in Refreshes :
             (/\ Evaluating
              /\ check_rule([kind |-> "ok", close |-> p], refresh)) =>
                LET rule == Current
                    triggered == auto_trade_rules'[Top.i + 1].outcome # ""
                IN /\ rule.type = BUY_LIMIT =>
                         (triggered <=> p <= rule.target_price)
                   /\ rule.type = SELL_STOP_LOSS =>
                         (triggered <=> p <= rule.target_price)
                   /\ rule.type = SELL_TAKE_PROFIT =>
                         (triggered <=> p >= rule.target_price)
                   /\ triggered =>
                         IF Short(rule, p)
                         THEN UNCHANGED <<simulated_cash, portfolio>>
                         ELSE portfolio' # portfolio
                   /\ ~triggered =>
                         /\ UNCHANGED <<simulated_cash, portfolio>>
                         /\ stack'[Len(stack')].executed = Top.executed
                         /\ stack'[Len(stack')].pc = "loop"
       /\ PassEnds =>
             \A k \in Rules :
                auto_trade_rules[k].outcome = "" =>
                   auto_trade_rules[k].id \in Ids(auto_trade_rules')]_vars

\* a pass found the first rule not triggered, the second triggered and
\* covered, and is about to delete the second
C24_Witness ==
    /\ LoopOver
    /\ Len(auto_trade_rules) = 2
    /\ auto_trade_rules[1].outcome = ""
    /\ auto_trade_rules[1].execs = 0
    /\ Top.executed = <<1>>

\* C25: whatever the downloads of the held symbols return, the total that
\* update_portfolio_table shows is the cash plus quantity * close over the
\* held symbols that have a close, and what it shows for a symbol without a
\* close differs from what it shows for that symbol with a close of 0.
Priced(d) == d.kind = "ok"

RECURSIVE PricedValue(_, _)
PricedValue(symbols, quotes) ==
    IF symbols = {} THEN 0
    ELSE LET s == CHOOSE t \in symbols : TRUE
         IN (IF Priced(quotes[s]) THEN portfolio[s] * quotes[s].close ELSE 0)
               + PricedValue(symbols \ {s}, quotes)

C25_TotalValue ==
    \A quotes \in [DOMAIN portfolio -> Downloads] :
       /\ update_portfolio_table(quotes).total_portfolio_value =
             simulated_cash + PricedValue(DOMAIN portfolio, quotes)
       /\ \A s \in DOMAIN portfolio :
             ~Priced(quotes[s]) =>
                update_portfolio_table(quotes) #
                   update_portfolio_table(
                      [quotes EXCEPT ![s] = [kind |-> "ok", close |-> 0]])

\* C26: a buy or a sell checks the ledger and changes it in one step of one
\* handler: a step that changes the cash or the portfolio is a step of the
\* handler on top of the stack (or of an idle program), never of a handler
\* blocked below another, and it leaves every holding at 0 or more.  The
\* quantity dialog of a manual sell is the one place where a handler waits
\* between reading the ledger and changing it: when a pass has sold shares
\* of the symbol while the dialog was open, the sell is checked against the
\* holding that is left, sells the quantity if it is covered and nothing
\* otherwise.
SoldUnderDialog ==
    /\ stack # <<>>
    /\ Top.kind = "sell"
    /\ Top.quantity_owned > Get(portfolio, Top.symbol)

C26_MutualExclusion ==
    /\ [](\A s \in Symbols : Get(portfolio, s) >= 0)
    /\ [][/\ ~UNCHANGED <<simulated_cash, portfolio>> =>
                /\ Len(stack') <= Len(stack)
                /\ \A k \in 1..(Len(stack) - 1) : stack'[k] = stack[k]
                /\ stack # <<>> => (Top.pc \in {"loop", "getInt"})
          /\ SoldUnderDialog =>
                \A quantity \in 1..MaxHold, d \in Downloads :
                   sell_stock_accept(quantity, d) =>
                      Get(portfolio', Top.symbol) =
                         IF quantity <= Get(portfolio, Top.symbol)
                         THEN Get(portfolio, Top.symbol) - quantity
                         ELSE Get(portfolio, Top.symbol)]_vars

\* the dialog of a manual sell was opened on two shares, a pass has sold
\* one of them and has ended, and the dialog is still open
C26_Witness ==
    /\ Len(stack) = 1
    /\ Top.kind = "sell"
    /\ Top.quantity_owned = 2
    /\ Get(portfolio, Top.symbol) = 1

\* C27: every pass comes to its end, also when the download for the symbol
\* of a rule does not return: the call is given up after a time, the rule
\* is skipped and the rules after it are evaluated.
C27_TickTerminates == InProgress ~> ~InProgress

\* C28: from the ledger and the rule list of any state, and for every
\* quote of the tick, a pass over the list consumes the same rules and
\* leaves the same cash and holdings for every order of the list that
\* keeps the order of rules on different symbols, provided the rules do not
\* compete: the cash covers the triggered buy rules together, and the
\* holding of each symbol covers its triggered sell rules together.  (When
\* rules compete, the rule earlier in the list is served first.)
Perms(n) ==
    {f \in [1..n -> 1..n] : \A i, j \in 1..n : f[i] = f[j] => i = j}
Reordered(rules, f) == [k \in 1..Len(rules) |-> rules[f[k]]]
KeepsBuckets(rules, f) ==
    \A a, b \in 1..Len(rules) :
       (a < b /\ rules[f[a]].symbol # rules[f[b]].symbol) => f[a] < f[b]
Quotes == [{auto_trade_rules[k].symbol : k \in Rules} -> Downloads]

RECURSIVE BuyCost(_, _)
BuyCost(rules, quote) ==
    IF rules = <<>> THEN 0
    ELSE (IF Head(rules).type = BUY_LIMIT /\ Triggered(Head(rules), quote)
          THEN quote[Head(rules).symbol].close * Head(rules).quantity
          ELSE 0) + BuyCost(Tail(rules), quote)

RECURSIVE SellShares(_, _, _)
SellShares(rules, quote, symbol) ==
    IF rules = <<>> THEN 0
    ELSE (IF /\ SellRule(Head(rules)) /\ Head(rules).symbol = symbol
             /\ Triggered(Head(rules), quote)
          THEN Head(rules).quantity
          ELSE 0) + SellShares(Tail(rules), quote, symbol)

NoCompetition(quote) ==
    /\ BuyCost(auto_trade_rules, quote) <= simulated_cash
    /\ \A s \in DOMAIN quote :
          SellShares(auto_trade_rules, quote, s) <= Get(portfolio, s)

ScenarioBuy ==
    /\ Len(auto_trade_rules) = 1
    /\ auto_trade_rules[1].type = BUY_LIMIT
    /\ auto_trade_rules[1].quantity = 2
    /\ auto_trade_rules[1].target_price = 2

C29_ScenarioBuy ==
    [][/\ \A refresh \in Refreshes :
             (/\ Evaluating
              /\ ScenarioBuy
              /\ simulated_cash = InitialCash
              /\ portfolio = EmptyDict
              /\ check_rule([kind |-> "ok", close |-> 1], refresh)) =>
                /\ simulated_cash' = InitialCash - 2 * 1
                /\ portfolio' = Put(EmptyDict, auto_trade_rules[1].symbol, 2)
       /\ (/\ PassEnds
           /\ ScenarioBuy
           /\ auto_trade_rules[1].outcome = "traded"
           /\ simulated_cash = InitialCash - 2 * 1
           /\ portfolio = Put(EmptyDict, auto_trade_rules[1].symbol, 2)) =>
             auto_trade_rules' = <<>>]_vars

\* C30: with one Buy (Limit) rule of quantity 1 in the list and less cash
\* than the close, a tick whose close is at or below the target executes no
\* trade: the step leaves the cash, the portfolio and the rule list as they
\* are and shows the warning of the failed buy, and the rule is still the
\* one rule of the list when the tick is over.
ScenarioShort ==
    /\ Len(auto_trade_rules) = 1
    /\ auto_trade_rules[1].type = BUY_LIMIT
    /\ auto_trade_rules[1].quantity = 1

C30_ScenarioShort ==
    [][/\ \A p \in 1..MaxPrice, refresh \in Refreshes :
             (/\ Evaluating
              /\ ScenarioShort
              /\ p <= auto_trade_rules[1].target_price
              /\ simulated_cash < p
              /\ check_rule([kind |-> "ok", close |-> p], refresh)) =>
                /\ UNCHANGED <<simulated_cash, portfolio>>
                /\ Ids(auto_trade_rules') = Ids(auto_trade_rules)
                /\ stack'[Len(stack')].pc = "failed"
                /\ stack'[Len(stack')].executed = <<>>
       /\ (/\ PassEnds
           /\ ScenarioShort
           /\ auto_trade_rules[1].outcome = "failed") =>
             /\ Len(auto_trade_rules') = 1
             /\ auto_trade_rules'[1].id = auto_trade_rules[1].id
             /\ UNCHANGED <<simulated_cash, portfolio>>]_vars

\* the pass shows the warning of a buy that some cash, less than the
\* close, did not cover
C30_Witness ==
    /\ stack # <<>>
    /\ Top.kind = "tick" /\ Top.pc = "failed"
    /\ ScenarioShort
    /\ simulated_cash > 0
    /\ simulated_cash < auto_trade_rules[1].target_price

\* C31: with one Sell (Take Profit) rule in the list for the whole holding
\* of its symbol, a tick whose close is above the target executes the sell:
\* the symbol leaves the portfolio (it is not kept with a quantity of 0),
\* the cash goes up by quantity * close, and the rule list is empty when the
\* tick is over.
ScenarioSell ==
    /\ Len(auto_trade_rules) = 1
    /\ auto_trade_rules[1].type = SELL_TAKE_PROFIT
    /\ auto_trade_rules[1].quantity = MaxQty

C31_ScenarioSell ==
    [][/\ \A refresh \in Refreshes :
             (/\ Evaluating
              /\ ScenarioSell
              /\ Get(portfolio, auto_trade_rules[1].symbol) = MaxQty
              /\ check_rule([kind |-> "ok", close |-> MaxPrice], refresh)) =>
                /\ auto_trade_rules[1].symbol \notin DOMAIN portfolio'
                /\ simulated_cash' = simulated_cash + MaxQty * MaxPrice
       /\ (/\ PassEnds
           /\ ScenarioSell
           /\ auto_trade_rules[1].outcome = "traded"
           /\ auto_trade_rules[1].symbol \notin DOMAIN portfolio) =>
             auto_trade_rules' = <<>>]_vars

\* C32: a rule keeps its symbol, type, target price and quantity from the
\* step that adds it to the step that takes it out of the list: whatever
\* the step (a pass, a manual trade, an add or a removal of another rule),
\* a rule that is in the list before and after it has the same four fields.
C32_RulesImmutable ==
    [][\A k \in 1..Len(auto_trade_rules), l \in 1..Len(auto_trade_rules') :
          auto_trade_rules'[l].id = auto_trade_rules[k].id =>
             /\ auto_trade_rules'[l].symbol = auto_trade_rules[k].symbol
             /\ auto_trade_rules'[l].type = auto_trade_rules[k].type
             /\ auto_trade_rules'[l].target_price = auto_trade_rules[k].target_price
             /\ auto_trade_rules'[l].quantity = auto_trade_rules[k].quantity]_vars

\* the list holds a rule that has traded and has stayed, and a rule of
\* another type
C32_Witness ==
    /\ Idle
    /\ Len(auto_trade_rules) = 2
    /\ auto_trade_rules[1].execs >= 1
    /\ auto_trade_rules[1].type # auto_trade_rules[2].type

\* C33: a rule whose buy or sell a pass has booked is consumed by that
\* pass: when the pass ends, every rule that traded in it leaves the list,
\* also when the refresh or the message box after the trade raised.
C33_TradeConsumes ==
    [][PassEnds =>
          \A k \in Rules :
             auto_trade_rules[k].outcome = "traded" =>
                auto_trade_rules[k].id \notin Ids(auto_trade_rules')]_vars

\* C34: while a pass is in progress the rule list is the list the pass
\* began with: no step before the end of the pass adds or deletes a rule.
\* The indices the pass has recorded are in increasing order and each still
\* designates, in that list, a rule that traded in this pass.  The step that
\* ends the pass deletes the recorded rules together and keeps the others
\* in their order.
IdSeq(rules) == [k \in 1..Len(rules) |-> rules[k].id]
Recorded(k) == \E j \in 1..Len(Top.executed) : Top.executed[j] = k - 1

C34_NoMidPassMutation ==
    /\ [](InProgress =>
             /\ Top.kind = "tick"
             /\ \A j \in 1..Len(Top.executed) :
                   /\ Top.executed[j] < Len(auto_trade_rules)
                   /\ Top.executed[j] < Top.i
                   /\ auto_trade_rules[Top.executed[j] + 1].outcome = "traded"
                   /\ j > 1 => Top.executed[j - 1] < Top.executed[j])
    /\ [][InProgress =>
             IF PassEnds
             THEN /\ Ids(auto_trade_rules') =
                        {auto_trade_rules[k].id : k \in {r \in Rules : ~Recorded(r)}}
                  /\ Len(auto_trade_rules') =
                        Len(auto_trade_rules) - Len(Top.executed)
                  /\ \A a, b \in 1..Len(auto_trade_rules') :
                        a < b => auto_trade_rules'[a].id < auto_trade_rules'[b].id
             ELSE IdSeq(auto_trade_rules') = IdSeq(auto_trade_rules)]_vars

\* a pass over two rules has recorded both and is about to delete them
C34_Witness ==
    /\ LoopOver
    /\ Len(auto_trade_rules) = 2
    /\ Top.executed = <<0, 1>>

\* C35: a rule that a pass has kept after the ledger refused its trade is
\* evaluated again by every later pass (a pass ends only when its loop has
\* gone over the whole list), and the pass in which its trade is booked
\* consumes it: once a rule that has never traded has failed, it is not
\* found in the list, between passes, with a trade made.
FailedFirst(id) ==
    \E k \in Rules :
       /\ auto_trade_rules[k].id = id
       /\ auto_trade_rules[k].outcome = "failed"
       /\ auto_trade_rules[k].execs = 0
KeptUntraded(id) ==
    \A k \in Rules :
       auto_trade_rules[k].id = id => auto_trade_rules[k].execs = 0

C35_RetryConsumes ==
    /\ [][PassEnds => Top.i >= Len(auto_trade_rules)]_vars
    /\ \A id \in 1..MaxRuleId :
          [](FailedFirst(id) => [](Idle => KeptUntraded(id)))

\* C36: a manual sell of q shares that the holding covers, at a close p,
\* adds exactly p * q to the cash, whatever the cash was before the sell
\* (also above the maximum of the cash input, where rule-triggered sells
\* can take it): writing the cash to the cash input changes nothing of it.
C36_SellCreditsExactly ==
    [][\A quantity \in 1..MaxHold, p \in 0..MaxPrice :
          (/\ stack # <<>>
           /\ Top.kind = "sell"
           /\ Get(portfolio, Top.symbol) >= quantity
           /\ sell_stock_accept(quantity, [kind |-> "ok", close |-> p])) =>
             simulated_cash' = simulated_cash + p * quantity]_vars

\* C37: while the timer is not active no pass is in progress, and a step
\* taken then books no rule-triggered trade: the cash and the portfolio
\* change only by a manual buy, a manual sell or an edit of the cash input,
\* no rule counts a trade, and a rule leaves the list only by the user's
\* removal of it.
C37_NoTradeWhileStopped ==
    /\ [](~timer_active => ~InProgress)
    /\ [][~timer_active =>
             /\ ~UNCHANGED <<simulated_cash, portfolio>> =>
                   \/ \E value \in CashInputs : CashEdited(value)
                   \/ \E symbol \in Keyed, quantity \in Quantities,
                         d \in Downloads, refresh \in Refreshes :
                         _execute_buy(symbol, quantity, d, refresh)
                   \/ \E quantity \in 1..MaxHold, d \in Downloads :
                         sell_stock_accept(quantity, d)
             /\ \A k \in Rules :
                   IF auto_trade_rules[k].id \in Ids(auto_trade_rules')
                   THEN \A l \in 1..Len(auto_trade_rules') :
                           auto_trade_rules'[l].id = auto_trade_rules[k].id =>
                              auto_trade_rules'[l].execs = auto_trade_rules[k].execs
                   ELSE RemovedByUser(k)]_vars

\* the timer is stopped, the list holds two rules that have not traded,
\* and manual trades have changed the cash and the portfolio
C37_Witness ==
    /\ Idle
    /\ ~timer_active
    /\ Len(auto_trade_rules) = 2
    /\ \A k \in Rules : auto_trade_rules[k].execs = 0
    /\ auto_trade_rules[1].type = BUY_LIMIT
    /\ portfolio # EmptyDict
    /\ simulated_cash < InitialCash

\* C38: the manual buys and sells, the watch-list operations and the edits
\* of the cash input leave the rule list and its table as they are: a step
\* that changes one of them is none of these, also when a manual sell takes
\* the holding below the quantity of a sell rule that waits on the symbol.
C38_ManualKeepsRules ==
    [][~UNCHANGED <<auto_trade_rules, rules_table>> =>
          /\ \A value \in CashInputs : ~CashEdited(value)
          /\ \A symbol \in Keyed :
                /\ \A quantity \in Quantities, d \in Downloads,
                      refresh \in Refreshes :
                      ~_execute_buy(symbol, quantity, d, refresh)
                /\ ~sell_stock(symbol)
                /\ \A d \in Downloads : ~_add_stock_to_watchlist_handler(symbol, d)
                /\ ~remove_from_watchlist(symbol)
          /\ \A quantity \in 1..MaxHold, d \in Downloads :
                ~sell_stock_accept(quantity, d)
          /\ ~sell_stock_cancel
          /\ ~_clear_watchlist_handler]_vars

\* a manual sell has taken the holding below the quantity of a sell rule
\* that has not traded
C38_Witness ==
    /\ Idle
    /\ \E k \in Rules :
          /\ SellRule(auto_trade_rules[k])
          /\ auto_trade_rules[k].execs = 0
          /\ Get(portfolio, auto_trade_rules[k].symbol) < auto_trade_rules[k].quantity
          /\ \A l \in Rules : l # k => auto_trade_rules[l].type = BUY_LIMIT
          /\ \A l \in Rules : auto_trade_rules[l].execs = 0
    /\ next_id = Len(auto_trade_rules) + 1

\* C39: the Start button is enabled exactly when the timer is not active
\* and the Stop button exactly when it is, so that one of the two buttons,
\* and only one, is enabled.
C39_ButtonsMirrorTimer ==
    /\ start_button <=> ~timer_active
    /\ stop_button <=> timer_active
    /\ start_button # stop_button

\* a pass is in progress with the Stop button enabled and the Start
\* button disabled, and the list holds a rule that has traded
C39_Witness ==
    /\ InProgress
    /\ stop_button /\ ~start_button
    /\ \E k \in Rules : auto_trade_rules[k].execs >= 1

\* C40: no symbol is in the watch list twice, whatever adds to the watch
\* list, manual buys, removals and clears have happened.
C40_WatchlistDistinct ==
    \A j, k \in 1..Len(watchlist_symbols) :
       watchlist_symbols[j] = watchlist_symbols[k] => j = k

\* both symbols are in the watch list and held, the first with more shares
\* than one buy gives when it buys one share at a time
C40_Witness ==
    /\ Idle
    /\ Len(watchlist_symbols) = 2
    /\ Get(portfolio, watchlist_symbols[1]) = MaxHold
    /\ watchlist_symbols[2] \in DOMAIN portfolio

====
